---- MODULE Spec2Model ----
(***************************************************************************)
(* Model of the point-data-table builder of ecPoint-PyCal:                 *)
(*   core/processor/__init__.py   run(config), the case loop               *)
(*   core/computations/utils.py   the numeric operator library             *)
(* The forecast and observation files, the scheduler iter_daterange and    *)
(* Computer.run are the environment of run(): what they deliver is drawn   *)
(* from small sets.                                                        *)
(***************************************************************************)
EXTENDS Integers, Sequences, FiniteSets, TLC

(* ------------------------------ bounds --------------------------------- *)
\* observations in one observation file: 0..MaxObs
MaxObs == 2
\* forecast grid values at a station: 0..MaxVal
MaxVal == 1
\* cases the scheduler yields in one run: 1..MaxCases
MaxCases == 2
\* resolver inputs: lead times 0..MaxStep, sampling intervals 1..MaxDelta
MaxStep == 26
MaxDelta == 7
\* fieldsets handed to one operator of the library: 2..MaxArgs
MaxArgs == 4
\* computations of a configuration handed to the partitioner: 1..MaxComps
MaxComps == 3
\* /computations/start requests that the server receives: 1..MaxRequests
MaxRequests == 2

VARIABLES
    config,              \* the Config handed to run()
    pc,                  \* position of run(): loop, read_obs, read_fc, compute,
                         \* derived, assemble, summary, done, raised
    ncases,              \* cases yielded so far by iter_daterange
    curr,                \* curr_date, curr_time, step_s, case
    counter_used_FC,     \* dict forecast -> case
    obsTOT,
    obsUSED,
    obs,                 \* Geopoints of the case
    bi,                  \* index in base_computations
    steps,               \* lead times of the current base computation
    computation_steps,   \* fieldsets read so far for it
    computations_cache,  \* dict shortname -> computed value
    computations_result, \* list of (shortname, values)
    mask,
    ref_geopoints,
    ref_code,
    di,                  \* index in derived_computations
    outcome,             \* of the current case: NONE, SKIPPED, EMITTED
    chunks,              \* add_columns_chunk calls of the current case
    logs,                \* warning/error entries of the current case
    footer,              \* add_footer call of the run
    exc,                 \* exception that left run()
    obsRead,             \* read_geopoints was called in the current case
    fcReads,             \* Fieldset.from_path calls in the current case
    tot0,                \* obsTOT when the current case was drawn
    used0,               \* obsUSED when the current case was drawn
    earlier,             \* forecast keys of the cases drawn before the current
    refCase,             \* case that last assigned mask and ref_geopoints
    hist,                \* what the current case has done so far, in order
    rin,                 \* resolver input: kind, accumulated, acc, s, D
    rout,                \* resolver output: done, steps
    oin,                 \* operator library input: op, args, hour
    oout,                \* operator library output: done, value
    is_computation_running,   \* the module-level flag of api.py
    handlers,            \* position of each start_computation request
    status               \* the last response of /computations/status

vars == << config, pc, ncases, curr, counter_used_FC, obsTOT, obsUSED, obs, bi,
           steps, computation_steps, computations_cache, computations_result,
           mask, ref_geopoints, ref_code, di, outcome, chunks, logs, footer,
           exc, obsRead, fcReads, tot0, used0, earlier, refCase, hist, rin, rout,
           oin, oout, is_computation_running, handlers, status >>

runVars == << config, pc, ncases, curr, counter_used_FC, obsTOT, obsUSED, obs,
              bi, steps, computation_steps, computations_cache,
              computations_result, mask, ref_geopoints, ref_code, di, outcome,
              chunks, logs, footer, exc, obsRead, fcReads, tot0, used0, earlier,
              refCase, hist >>

\* the variables of the pure functions checked on their own
apiVars == << is_computation_running, handlers, status >>
resolverVars == << rin, rout, oin, oout, apiVars >>

(* --------------------------- configuration ----------------------------- *)
Computation(sn, fld, ins, pp, add, mul) ==
    [ shortname |-> sn, field |-> fld, inputs |-> ins, isPostProcessed |-> pp,
      addScale |-> add, mulScale |-> mul ]

\* predictand rainfall "tp" over a 6 h window, a second predictor "cp", the
\* ratio of the two and the local solar time
AccumulatedComputations(add, mul) ==
    << Computation("TP", "ACCUMULATED_FIELD", << "tp" >>, TRUE, add, mul),
       Computation("CP", "ACCUMULATED_FIELD", << "cp" >>, TRUE, 0, 1),
       Computation("CPR", "RATIO_FIELD", << "CP", "TP" >>, TRUE, 0, 1),
       Computation("LST", "LOCAL_SOLAR_TIME", << "tp" >>, TRUE, 0, 1) >>

\* predictand temperature "tp" at an instant, a helper field that is not
\* written to the table, and the larger of the two
InstantComputations(mul) ==
    << Computation("TP", "INSTANTANEOUS_FIELD_001", << "tp" >>, TRUE, 0, mul),
       Computation("CP", "INSTANTANEOUS_FIELD_001", << "cp" >>, FALSE, 0, 1),
       Computation("MX", "MAXIMUM_FIELD", << "CP", "TP" >>, TRUE, 0, 1) >>

\* as AccumulatedComputations, with a second derived computation "CPS" whose
\* inputs name the derived computation "CPR" and the raw predictor code "cp"
ChainedComputations ==
    << Computation("TP", "ACCUMULATED_FIELD", << "tp" >>, TRUE, 0, 1),
       Computation("CP", "ACCUMULATED_FIELD", << "cp" >>, TRUE, 0, 1),
       Computation("CPR", "RATIO_FIELD", << "CP", "TP" >>, TRUE, 0, 1),
       Computation("CPS", "RATIO_FIELD", << "CPR", "cp" >>, TRUE, 0, 1) >>

\* min_value, addScale and mulScale of the accumulated predictand
Scalings == { << 0, 0, 1 >>, << 1, 0, 1 >>, << 1, 0, 2 >>, << 0, 1, 1 >> }

Configs ==
    { [ is_accumulated |-> TRUE, accumulation |-> 6, code |-> "tp",
        min_value |-> sc[1], error |-> "FER", codes |-> { "tp", "cp" },
        sampling_interval |-> 6, date_start |-> 1, date_end |-> 1,
        computations |-> AccumulatedComputations(sc[2], sc[3]) ]
      : sc \in Scalings }
    \cup
    { [ is_accumulated |-> FALSE, accumulation |-> 0, code |-> "tp",
        min_value |-> 0, error |-> er, codes |-> { "tp", "cp" },
        sampling_interval |-> 6, date_start |-> 1, date_end |-> 1,
        computations |-> InstantComputations(1) ]
      : er \in { "FE" } }
    \cup
    { [ is_accumulated |-> TRUE, accumulation |-> 6, code |-> "tp",
        min_value |-> 0, error |-> "FER", codes |-> { "tp", "cp" },
        sampling_interval |-> 6, date_start |-> 1, date_end |-> 1,
        computations |-> ChainedComputations ] }

\* what iter_daterange may yield: a date before the calibration period or in
\* it, one base time, two lead times
CaseDates == 0 .. 1
CaseTimes == { 0 }
CaseSteps == { 0, 6 }

(* ----------------------------- data types ------------------------------ *)
\* a name of run() that no assignment has bound yet
Unbound == [ bound |-> FALSE, v |-> << >> ]
Bound(x) == [ bound |-> TRUE, v |-> x ]

\* a Fieldset, seen through the grid points nearest to the stations 1..MaxObs:
\* the forecast files hold a uniform field of any value, or a field that is 0
\* at the first station and MaxVal at the others
Stations == 1 .. MaxObs
Fieldsets ==
    { [ i \in Stations |-> v ] : v \in 0 .. MaxVal }
    \cup { [ i \in Stations |-> IF i = 1 THEN 0 ELSE MaxVal ] }

\* an observation file holds the first n stations of the network
ObsValue(i) == i
LonOf(i) == 30 * i - 60
ObsFile(n) == [ i \in 1 .. n |-> [ id |-> i, val |-> ObsValue(i) ] ]

(* ------------------------- geopoints and fields ------------------------ *)
\* Fieldset.nearest_gridpoint(obs): one projected value per observation
nearest_gridpoint(fieldset, geopoints) ==
    [ j \in 1 .. Len(geopoints) |->
        [ id |-> geopoints[j].id, val |-> fieldset[geopoints[j].id] ] ]

\* geopoints >= threshold: one boolean per observation
GeopointsGE(geopoints, threshold) ==
    [ j \in 1 .. Len(geopoints) |-> geopoints[j].val >= threshold ]

RECURSIVE FilterSeq(_, _)
\* the elements of xs at the positions where m is true, in their order
FilterSeq(xs, m) ==
    IF xs = << >> THEN << >>
    ELSE IF Head(m) THEN << Head(xs) >> \o FilterSeq(Tail(xs), Tail(m))
         ELSE FilterSeq(Tail(xs), Tail(m))

\* Geopoints.filter(mask)
GeopointsFilter(geopoints, m) == FilterSeq(geopoints, m)

get_geopoints_values(geopoints) ==
    [ j \in 1 .. Len(geopoints) |-> geopoints[j].val ]

latitudes(geopoints) == [ j \in 1 .. Len(geopoints) |-> geopoints[j].id ]
longitudes(geopoints) ==
    [ j \in 1 .. Len(geopoints) |-> LonOf(geopoints[j].id) ]

\* a quotient is kept as << numerator, denominator >>; denominator 0 is the
\* inf/nan that float division gives
Quotient(a, b) == << a, b >>

\* round half to even of n/d, d > 0
RoundHalfEven(n, d) ==
    LET q == n \div d
        r == n % d
    IN IF 2 * r < d THEN q
       ELSE IF 2 * r > d THEN q + 1
       ELSE IF q % 2 = 0 THEN q ELSE q + 1

\* np.around(x, decimals=3) of a quotient, in thousandths
AroundQuotient(x) ==
    IF x[2] = 0 THEN x
    ELSE IF x[2] > 0 THEN << RoundHalfEven(1000 * x[1], x[2]), 1000 >>
    ELSE << RoundHalfEven(-1000 * x[1], -x[2]), 1000 >>

\* np.around(x, decimals=3) of a whole number
AroundInt(x) == x

\* (obs - ref_geopoints) / ref_geopoints
FERValues(o, r) ==
    [ j \in 1 .. Len(o) |-> AroundQuotient(Quotient(o[j].val - r[j].val, r[j].val)) ]

\* obs - ref_geopoints
FEValues(o, r) == [ j \in 1 .. Len(o) |-> AroundInt(o[j].val - r[j].val) ]

(* ------------------------- operator library ---------------------------- *)
compute_accumulated_field(args) ==
    [ p \in DOMAIN args[1] |-> args[Len(args)][p] - args[1][p] ]

compute_instantaneous_field_001(args) == args[Len(args)]

Max2(a, b) == IF a >= b THEN a ELSE b

RECURSIVE compute_maximum(_)
compute_maximum(args) ==
    IF Len(args) = 1 THEN args[1]
    ELSE LET rest == compute_maximum(Tail(args))
         IN [ p \in DOMAIN args[1] |-> Max2(args[1][p], rest[p]) ]

\* reduce(operator.add, items, initial) at grid point p
RECURSIVE ReduceAdd(_, _, _)
ReduceAdd(items, p, initial) ==
    IF Len(items) = 0 THEN initial
    ELSE ReduceAdd(Tail(items), p, initial + Head(items)[p])

\* both ends given the weight 1 of an interior item: the sum is divided by
\* the number of fieldsets
WeightedAverageOverCount(args) ==
    LET n == Len(args)
        items_excluding_first_and_last == SubSeq(args, 2, n - 1)
    IN [ p \in DOMAIN args[1] |->
           Quotient(2 * ReduceAdd(items_excluding_first_and_last, p, 0)
                      + args[1][p] + args[n][p],
                    2 * n) ]

\* the sums are kept in halves, x * 0.5 being x halves; total_weight is
\* len(items) * 1 + 2 * 0.5
compute_weighted_average_field(args) ==
    LET n == Len(args)
        weighted_sum_of_first_and_last_items ==
            [ p \in DOMAIN args[1] |-> args[1][p] + args[n][p] ]
        items_excluding_first_and_last == SubSeq(args, 2, n - 1)
        total_weight == Len(items_excluding_first_and_last) * 1 + 1
    IN IF Len(items_excluding_first_and_last) > 0
       THEN [ p \in DOMAIN args[1] |->
                Quotient(2 * ReduceAdd(items_excluding_first_and_last, p, 0)
                           + weighted_sum_of_first_and_last_items[p],
                         2 * total_weight) ]
       ELSE [ p \in DOMAIN args[1] |->
                Quotient(weighted_sum_of_first_and_last_items[p], 2) ]

compute_ratio_field(dividend, divisor) ==
    [ p \in DOMAIN dividend |-> Quotient(dividend[p], divisor[p]) ]

\* Computer(computation).run(*args) when it returns: the operator of the
\* computation's kind, then the computation's offset and scale
ComputerRun(computation, args) ==
    LET raw == CASE computation.field = "ACCUMULATED_FIELD" ->
                      compute_accumulated_field(args)
                 [] computation.field = "INSTANTANEOUS_FIELD_001" ->
                      compute_instantaneous_field_001(args)
                 [] computation.field = "MAXIMUM_FIELD" ->
                      compute_maximum(args)
    IN [ p \in DOMAIN raw |->
           (raw[p] + computation.addScale) * computation.mulScale ]

\* the same for RATIO_FIELD, whose value is a quotient
ComputerRunRatio(computation, dividend, divisor) ==
    LET raw == compute_ratio_field(dividend, divisor)
    IN [ p \in DOMAIN raw |->
           Quotient((raw[p][1] + computation.addScale * raw[p][2])
                      * computation.mulScale, raw[p][2]) ]

B(x) == IF x THEN 1 ELSE 0
Abs(x) == IF x < 0 THEN -x ELSE x

\* compute_local_solar_time at one longitude (degrees), in fifteenths of an
\* hour: 15 * (hour + lon / 15) = 15 * hour + lon
LocalSolarTime15(lon, hour) ==
    LET temp_lonPos == lon * B(lon >= 0)
        lstPos0 == 15 * hour + temp_lonPos
        lstPos == lstPos0 * B(temp_lonPos # 0)
        more0 == lstPos * B(lstPos >= 360) - 360
        temp_lstPosMore24 == more0 * B(more0 > 0)
        tempPos == lstPos * B(lstPos < 360) + temp_lstPosMore24
        temp_lonNeg == lon * B(lon < 0)
        lstNeg0 == 15 * hour - Abs(temp_lonNeg)
        lstNeg == lstNeg0 * B(temp_lonNeg # 0)
        less0 == lstNeg * B(lstNeg < 0) + 360
        temp_lstNegLess0 == less0 * B(less0 # 360)
        tempNeg == lstNeg * B(lstNeg > 0) + temp_lstNegLess0
    IN tempPos + tempNeg

compute_local_solar_time(lons, hour) ==
    [ j \in 1 .. Len(lons) |-> Quotient(LocalSolarTime15(lons[j], hour), 15) ]

(* -------------------------- lead-time resolver ------------------------- *)
\* list(range(a, b, d)) for d > 0
PyRange(a, b, d) ==
    LET n == IF b > a THEN (b - a + d - 1) \div d ELSE 0
    IN [ k \in 1 .. n |-> a + (k - 1) * d ]

\* the branch of 24H_SOLAR_RADIATION never taken: the window is not moved
\* onto 24 hours
StepsSolarAsOther(field, is_accumulated, acc, step_s, sampling_interval) ==
    IF ~ is_accumulated THEN << step_s >>
    ELSE IF field \in { "WEIGHTED_AVERAGE_FIELD", "AVERAGE_FIELD" }
         THEN PyRange(step_s, step_s + acc + 1, sampling_interval)
    ELSE IF field \in { "MAXIMUM_FIELD", "MINIMUM_FIELD" }
         THEN PyRange(step_s + sampling_interval, step_s + acc + 1,
                      sampling_interval)
    ELSE << step_s, step_s + acc >>

\* range(step_s, step_s + acc, ...) for the averages: the end of the window
\* left out
StepsAverageOpenEnd(field, is_accumulated, acc, step_s, sampling_interval) ==
    IF ~ is_accumulated THEN << step_s >>
    ELSE IF field = "24H_SOLAR_RADIATION"
         THEN IF acc = 24 THEN << step_s, step_s + acc >>
              ELSE IF step_s + acc <= 24 THEN << 0, 24 >>
                   ELSE << step_s + acc - 24, step_s + acc >>
    ELSE IF field \in { "WEIGHTED_AVERAGE_FIELD", "AVERAGE_FIELD" }
         THEN PyRange(step_s, step_s + acc, sampling_interval)
    ELSE IF field \in { "MAXIMUM_FIELD", "MINIMUM_FIELD" }
         THEN PyRange(step_s + sampling_interval, step_s + acc + 1,
                      sampling_interval)
    ELSE << step_s, step_s + acc >>

\* range(step_s, ...) for the extremes: the start of the window is read too
StepsExtremesFromStart(field, is_accumulated, acc, step_s, sampling_interval) ==
    IF ~ is_accumulated THEN << step_s >>
    ELSE IF field = "24H_SOLAR_RADIATION"
         THEN IF acc = 24 THEN << step_s, step_s + acc >>
              ELSE IF step_s + acc <= 24 THEN << 0, 24 >>
                   ELSE << step_s + acc - 24, step_s + acc >>
    ELSE IF field \in { "WEIGHTED_AVERAGE_FIELD", "AVERAGE_FIELD" }
         THEN PyRange(step_s, step_s + acc + 1, sampling_interval)
    ELSE IF field \in { "MAXIMUM_FIELD", "MINIMUM_FIELD" }
         THEN PyRange(step_s, step_s + acc + 1, sampling_interval)
    ELSE << step_s, step_s + acc >>

\* the test of is_accumulated left out: an instantaneous predictand is given
\* the lead times of a window
StepsInstantAsWindow(field, is_accumulated, acc, step_s, sampling_interval) ==
    IF field = "24H_SOLAR_RADIATION"
    THEN IF acc = 24 THEN << step_s, step_s + acc >>
         ELSE IF step_s + acc <= 24 THEN << 0, 24 >>
              ELSE << step_s + acc - 24, step_s + acc >>
    ELSE IF field \in { "WEIGHTED_AVERAGE_FIELD", "AVERAGE_FIELD" }
         THEN PyRange(step_s, step_s + acc + 1, sampling_interval)
    ELSE IF field \in { "MAXIMUM_FIELD", "MINIMUM_FIELD" }
         THEN PyRange(step_s + sampling_interval, step_s + acc + 1,
                      sampling_interval)
    ELSE << step_s, step_s + acc >>

\* the steps of a base computation
Steps(field, is_accumulated, acc, step_s, sampling_interval) ==
    IF ~ is_accumulated THEN << step_s >>
    ELSE IF field = "24H_SOLAR_RADIATION"
         THEN IF acc = 24 THEN << step_s, step_s + acc >>
              ELSE IF step_s + acc <= 24 THEN << 0, 24 >>
                   ELSE << step_s + acc - 24, step_s + acc >>
    ELSE IF field \in { "WEIGHTED_AVERAGE_FIELD", "AVERAGE_FIELD" }
         THEN PyRange(step_s, step_s + acc + 1, sampling_interval)
    ELSE IF field \in { "MAXIMUM_FIELD", "MINIMUM_FIELD" }
         THEN PyRange(step_s + sampling_interval, step_s + acc + 1,
                      sampling_interval)
    ELSE << step_s, step_s + acc >>

(* ------------------------------ partitioner ---------------------------- *)
is_reference(cfg, computation) ==
    /\ Len(computation.inputs) = 1
    /\ computation.inputs[1] = cfg.code

InputCodes(computation) ==
    { computation.inputs[k] : k \in 1 .. Len(computation.inputs) }

IsDerived(cfg, computation) ==
    /\ InputCodes(computation) \ cfg.codes # { }
    /\ computation.isPostProcessed
    /\ computation.field # "LOCAL_SOLAR_TIME"

RECURSIVE SelectInOrder(_, _)
\* [x for x in xs if x in S]
SelectInOrder(xs, S) ==
    IF xs = << >> THEN << >>
    ELSE IF Head(xs) \in S THEN << Head(xs) >> \o SelectInOrder(Tail(xs), S)
         ELSE SelectInOrder(Tail(xs), S)

AllComputations(cfg) ==
    { cfg.computations[k] : k \in 1 .. Len(cfg.computations) }

derived_computations(cfg) ==
    SelectInOrder(cfg.computations,
                  { c \in AllComputations(cfg) : IsDerived(cfg, c) })

\* sorted(..., key=is_reference) without reverse=True: the references last
BaseReferenceLast(cfg) ==
    LET base == { c \in AllComputations(cfg) :
                    /\ ~ IsDerived(cfg, c)
                    /\ c.field # "LOCAL_SOLAR_TIME" }
    IN SelectInOrder(cfg.computations,
                     { c \in base : ~ is_reference(cfg, c) })
       \o SelectInOrder(cfg.computations,
                        { c \in base : is_reference(cfg, c) })

\* sorted(..., key=is_reference, reverse=True): the references first, each
\* group in configured order
base_computations(cfg) ==
    LET base == { c \in AllComputations(cfg) :
                    /\ ~ IsDerived(cfg, c)
                    /\ c.field # "LOCAL_SOLAR_TIME" }
    IN SelectInOrder(cfg.computations,
                     { c \in base : is_reference(cfg, c) })
       \o SelectInOrder(cfg.computations,
                        { c \in base : ~ is_reference(cfg, c) })

predictand_min_value(cfg) ==
    (cfg.min_value + cfg.computations[1].addScale) * cfg.computations[1].mulScale

(* ------------------------------ case keys ------------------------------ *)
\* the string `forecast`: date, base time and lead-time window
ForecastKey(cfg, c) ==
    IF cfg.is_accumulated
    THEN << c.curr_date, c.curr_time, c.step_s, c.step_s + cfg.accumulation >>
    ELSE << c.curr_date, c.curr_time, c.step_s >>

OutOfPeriod(cfg, c) ==
    c.curr_date < cfg.date_start \/ c.curr_date > cfg.date_end

\* the hour of the start of the window: the accumulation left out
HourVF_numWindowStart(cfg, c) == (c.curr_time + c.step_s) % 24

\* validDateF.hour
HourVF_num(cfg, c) == (c.curr_time + c.step_s + cfg.accumulation) % 24

\* validDateF, as day number
DateVF(cfg, c) ==
    c.curr_date + (c.curr_time + c.step_s + cfg.accumulation) \div 24

(* ------------------------------- run() --------------------------------- *)
\* api.py after import: the flag is False, no request has come
Requests == 1 .. MaxRequests
ApiIdle ==
    /\ is_computation_running = FALSE
    /\ handlers = [ r \in Requests |-> "idle" ]
    /\ status = [ asked |-> FALSE, isRunning |-> FALSE, executing |-> FALSE,
                  finished |-> FALSE ]

NoCase == [ curr_date |-> 0, curr_time |-> 0, step_s |-> 0, case |-> 0 ]
ResolverIdle ==
    /\ rin = [ field |-> "", is_accumulated |-> FALSE, acc |-> 0, step_s |-> 0,
               sampling_interval |-> 1 ]
    /\ rout = [ done |-> FALSE, steps |-> << >> ]
    /\ oin = [ op |-> "", args |-> << >>, hour |-> 0 ]
    /\ oout = [ done |-> FALSE, value |-> << >> ]
    /\ ApiIdle

\* run() before its first case
RunInit ==
    /\ ncases = 0
    /\ curr = NoCase
    /\ counter_used_FC = << >>
    /\ obsTOT = 0
    /\ obsUSED = 0
    /\ obs = << >>
    /\ bi = 0
    /\ steps = << >>
    /\ computation_steps = << >>
    /\ computations_cache = << >>
    /\ computations_result = << >>
    /\ mask = Unbound
    /\ ref_geopoints = Unbound
    /\ ref_code = Unbound
    /\ di = 0
    /\ outcome = "NONE"
    /\ chunks = << >>
    /\ logs = { }
    /\ footer = << >>
    /\ exc = ""
    /\ obsRead = FALSE
    /\ fcReads = 0
    /\ tot0 = 0
    /\ used0 = 0
    /\ earlier = { }
    /\ refCase = 0
    /\ hist = << >>

Init ==
    /\ config \in Configs
    /\ pc = "loop"
    /\ RunInit
    /\ ResolverIdle

\* an entry of hist: computer.run of a computation ("run"), the assignment of
\* mask ("mask") and of ref_geopoints ("ref"), a filter(mask) of the
\* projection of a computation or of obs ("filter"), the head of a pass of
\* the derived loop ("derive"), a read of the cache ("read"), the read of
\* ref_geopoints for the errors ("errors")
Event(ev, name, m) == [ ev |-> ev, name |-> name, m |-> m ]

LogEntry(level, reason) == [ level |-> level, reason |-> reason ]

\* `continue`: the case is left without rows
Continue ==
    /\ outcome' = "SKIPPED"
    /\ pc' = "loop"

\* an exception nobody catches leaves run()
Raise(e) ==
    /\ exc' = e
    /\ pc' = "raised"

\* the lookup tests the case number, which is never a key of the dict
AlreadyConsideredByCase(forecast, counter) == FALSE

\* forecast in counter_used_FC
AlreadyConsidered(forecast, counter) == forecast \in DOMAIN counter

Cases ==
    { [ curr_date |-> d, curr_time |-> t, step_s |-> s, case |-> ncases + 1 ]
      : d \in CaseDates, t \in CaseTimes, s \in CaseSteps }

\* iter_daterange yields the next case
Yield(c) ==
    /\ pc = "loop"
    /\ ncases < MaxCases
    /\ c \in Cases
    /\ curr' = c
    /\ ncases' = ncases + 1
    /\ chunks' = << >>
    /\ obsRead' = FALSE
    /\ fcReads' = 0
    /\ tot0' = obsTOT
    /\ used0' = obsUSED
    /\ earlier' = IF ncases = 0 THEN { }
                  ELSE earlier \cup { ForecastKey(config, curr) }
    /\ hist' = << >>

SkipDuplicate ==
    \E c \in Cases :
        /\ Yield(c)
        /\ AlreadyConsidered(ForecastKey(config, c), counter_used_FC)
        /\ logs' = { LogEntry("warning", "already considered") }
        /\ Continue
        /\ UNCHANGED << config, counter_used_FC, obsTOT, obsUSED, obs, bi,
                        steps, computation_steps, computations_cache,
                        computations_result, mask, ref_geopoints, ref_code, di,
                        footer, exc, refCase, resolverVars >>

SkipOutOfPeriod ==
    \E c \in Cases :
        /\ Yield(c)
        /\ ~ AlreadyConsidered(ForecastKey(config, c), counter_used_FC)
        /\ OutOfPeriod(config, c)
        /\ logs' = { LogEntry("warning", "out of the calibration period") }
        /\ Continue
        /\ UNCHANGED << config, counter_used_FC, obsTOT, obsUSED, obs, bi,
                        steps, computation_steps, computations_cache,
                        computations_result, mask, ref_geopoints, ref_code, di,
                        footer, exc, refCase, resolverVars >>

AcceptCase ==
    \E c \in Cases :
        /\ Yield(c)
        /\ ~ AlreadyConsidered(ForecastKey(config, c), counter_used_FC)
        /\ ~ OutOfPeriod(config, c)
        /\ counter_used_FC' =
             (ForecastKey(config, c) :> c.case) @@ counter_used_FC
        /\ logs' = { }
        /\ outcome' = "NONE"
        /\ pc' = "read_obs"
        /\ UNCHANGED << config, obsTOT, obsUSED, obs, bi, steps,
                        computation_steps, computations_cache,
                        computations_result, mask, ref_geopoints, ref_code, di,
                        footer, exc, refCase, resolverVars >>

\* the base loop over base_computations[:-1]: the last one is left out
EnterBaseLeavesLast(k) ==
    LET base == base_computations(config)
    IN IF k < Len(base)
       THEN LET st == Steps(base[k].field, config.is_accumulated,
                            config.accumulation, curr.step_s,
                            config.sampling_interval)
            IN /\ bi' = k
               /\ steps' = st
               /\ computation_steps' = << >>
               /\ pc' = IF st = << >> THEN "compute" ELSE "read_fc"
               /\ di' = di
       ELSE /\ bi' = k
            /\ steps' = << >>
            /\ computation_steps' = << >>
            /\ di' = 1
            /\ pc' = IF derived_computations(config) = << >>
                     THEN "assemble" ELSE "derived"

\* the head of the base loop for base_computations[k], or past its end
EnterBase(k) ==
    LET base == base_computations(config)
    IN IF k <= Len(base)
       THEN LET st == Steps(base[k].field, config.is_accumulated,
                            config.accumulation, curr.step_s,
                            config.sampling_interval)
            IN /\ bi' = k
               /\ steps' = st
               /\ computation_steps' = << >>
               /\ pc' = IF st = << >> THEN "compute" ELSE "read_fc"
               /\ di' = di
       ELSE /\ bi' = k
            /\ steps' = << >>
            /\ computation_steps' = << >>
            /\ di' = 1
            /\ pc' = IF derived_computations(config) = << >>
                     THEN "assemble" ELSE "derived"

\* read_geopoints raises IOError or another exception
ReadObsFails ==
    /\ pc = "read_obs"
    /\ obsRead' = TRUE
    /\ \E e \in { LogEntry("warning", "observation file not found"),
                  LogEntry("error", "error reading observation file") } :
           logs' = logs \cup { e }
    /\ Continue
    /\ UNCHANGED << config, ncases, curr, counter_used_FC, obsTOT, obsUSED,
                    obs, bi, steps, computation_steps, computations_cache,
                    computations_result, mask, ref_geopoints, ref_code, di,
                    chunks, footer, exc, fcReads, tot0, used0,
                    earlier, refCase, hist,
                    resolverVars >>

ReadObsEmpty ==
    /\ pc = "read_obs"
    /\ obsRead' = TRUE
    /\ obs' = ObsFile(0)
    /\ logs' = logs \cup { LogEntry("warning", "no observation in the file") }
    /\ Continue
    /\ UNCHANGED << config, ncases, curr, counter_used_FC, obsTOT, obsUSED,
                    bi, steps, computation_steps, computations_cache,
                    computations_result, mask, ref_geopoints, ref_code, di,
                    chunks, footer, exc, fcReads, tot0, used0,
                    earlier, refCase, hist,
                    resolverVars >>

ReadObsOk ==
    /\ pc = "read_obs"
    /\ obsRead' = TRUE
    /\ \E nOBS \in 1 .. MaxObs :
           /\ obs' = ObsFile(nOBS)
           /\ obsTOT' = obsTOT + nOBS
    /\ computations_cache' = << >>
    /\ computations_result' = << >>
    /\ EnterBase(1)
    /\ UNCHANGED << config, ncases, curr, counter_used_FC, obsUSED, mask,
                    ref_geopoints, ref_code, outcome, chunks, logs, footer,
                    exc, fcReads, tot0, used0, earlier, refCase, hist,
                    resolverVars >>

\* `if skip: break` missing: the computation goes on with the files read
FailedForecastGoesOn ==
    /\ outcome' = outcome
    /\ pc' = "compute"

\* skip = True; break out of both loops; continue
FailedForecast == Continue

\* Fieldset.from_path raises IOError or another exception
ReadForecastFails ==
    /\ pc = "read_fc"
    /\ fcReads' = fcReads + 1
    /\ \E e \in { LogEntry("warning", "forecast file not found"),
                  LogEntry("error", "reading forecast file failed") } :
           logs' = logs \cup { e }
    /\ FailedForecast
    /\ UNCHANGED << config, ncases, curr, counter_used_FC, obsTOT, obsUSED,
                    obs, bi, steps, computation_steps, computations_cache,
                    computations_result, mask, ref_geopoints, ref_code, di,
                    chunks, footer, exc, obsRead, tot0, used0,
                    earlier, refCase, hist,
                    resolverVars >>

ReadForecastOk ==
    /\ pc = "read_fc"
    /\ fcReads' = fcReads + 1
    /\ \E fieldset \in Fieldsets :
           computation_steps' = Append(computation_steps, fieldset)
    /\ pc' = IF Len(computation_steps) + 1 = Len(steps)
             THEN "compute" ELSE "read_fc"
    /\ UNCHANGED << config, ncases, curr, counter_used_FC, obsTOT, obsUSED,
                    obs, bi, steps, computations_cache, computations_result,
                    mask, ref_geopoints, ref_code, di, outcome, chunks, logs,
                    footer, exc, obsRead, tot0, used0,
                    earlier, refCase, hist,
                    resolverVars >>

\* `>` written for `>=`
RetentionMaskStrict(geopoints, cfg) ==
    [ j \in 1 .. Len(geopoints) |->
        geopoints[j].val > predictand_min_value(cfg) ]

\* the observations compared with the minimum, not the reference values
RetentionMaskOfObs(geopoints, cfg) ==
    [ j \in 1 .. Len(geopoints) |-> obs[j].val >= predictand_min_value(cfg) ]

\* mask = geopoints >= predictand_min_value
RetentionMask(geopoints, cfg) == GeopointsGE(geopoints, predictand_min_value(cfg))

\* `ref_geopoints is None`, which an empty Geopoints never is
NoneRetainedIsNone(geopoints) == FALSE

\* not ref_geopoints
NoneRetained(geopoints) == Len(geopoints) = 0

\* the warning left out, as in the branch of the instantaneous predictand
RetentionLogSilent(cfg, lg) == lg

\* the log entries after the reference left no observation
RetentionLog(cfg, lg) ==
    IF cfg.is_accumulated
    THEN lg \cup { LogEntry("warning", "no observations above the minimum") }
    ELSE lg

\* the filter forgotten
MaskedOtherUnfiltered(cfg, geopoints, m) == geopoints

\* geopoints.filter(mask) of a base computation that is not the reference
MaskedOther(cfg, geopoints, m) ==
    IF cfg.is_accumulated THEN GeopointsFilter(geopoints, m.v) ELSE geopoints

CurrentBase == base_computations(config)[bi]

\* computer.run(*computation_steps) raises
ComputeRaises ==
    /\ pc = "compute"
    /\ Raise("Computer.run")
    /\ UNCHANGED << config, ncases, curr, counter_used_FC, obsTOT, obsUSED,
                    obs, bi, steps, computation_steps, computations_cache,
                    computations_result, mask, ref_geopoints, ref_code, di,
                    outcome, chunks, logs, footer, obsRead, fcReads, tot0,
                    used0, earlier, refCase, hist,
                    resolverVars >>

\* a base computation that is not post-processed only fills the cache
ComputeHidden ==
    /\ pc = "compute"
    /\ Len(computation_steps) >= 1
    /\ ~ CurrentBase.isPostProcessed
    /\ computations_cache' =
         (CurrentBase.shortname :> ComputerRun(CurrentBase, computation_steps))
           @@ computations_cache
    /\ EnterBase(bi + 1)
    /\ hist' = Append(hist, Event("run", CurrentBase.shortname, << >>))
    /\ UNCHANGED << config, ncases, curr, counter_used_FC, obsTOT, obsUSED,
                    obs, computations_result, mask, ref_geopoints, ref_code,
                    outcome, chunks, logs, footer, exc, obsRead, fcReads, tot0,
                    used0, earlier, refCase, resolverVars >>

\* mask is assigned only while it is unbound: the mask of an earlier case is
\* kept
AssignMaskOnce(m, before, after) ==
    IF config.is_accumulated /\ ~ mask.bound
    THEN /\ mask' = Bound(m)
         /\ hist' = before \o << Event("mask", CurrentBase.shortname, m) >>
                        \o after
    ELSE /\ mask' = mask
         /\ hist' = before \o after

\* mask = geopoints >= predictand_min_value, for an accumulated predictand
AssignMask(m, before, after) ==
    IF config.is_accumulated
    THEN /\ mask' = Bound(m)
         /\ hist' = before \o << Event("mask", CurrentBase.shortname, m) >>
                        \o after
    ELSE /\ mask' = mask
         /\ hist' = before \o after

\* the predictand reference: mask, ref_geopoints, skip when nothing is left
ComputeReference ==
    /\ pc = "compute"
    /\ Len(computation_steps) >= 1
    /\ CurrentBase.isPostProcessed
    /\ is_reference(config, CurrentBase)
    /\ LET computed_value == ComputerRun(CurrentBase, computation_steps)
           geopoints == nearest_gridpoint(computed_value, obs)
           m == RetentionMask(geopoints, config)
           ref == IF config.is_accumulated
                  THEN GeopointsFilter(geopoints, m) ELSE geopoints
       IN /\ computations_cache' =
               (CurrentBase.shortname :> computed_value) @@ computations_cache
          /\ ref_code' = Bound(CurrentBase.shortname)
          /\ AssignMask(m,
                        Append(hist,
                               Event("run", CurrentBase.shortname, << >>)),
                        << Event("ref", CurrentBase.shortname, << >>) >>)
          /\ ref_geopoints' = Bound(ref)
          /\ IF NoneRetained(ref)
             THEN /\ logs' = RetentionLog(config, logs)
                  /\ Continue
                  /\ UNCHANGED << bi, steps, computation_steps, di,
                                  computations_result >>
             ELSE /\ computations_result' =
                       Append(computations_result,
                              << CurrentBase.shortname,
                                 get_geopoints_values(ref) >>)
                  /\ EnterBase(bi + 1)
                  /\ UNCHANGED << outcome, logs >>
    /\ refCase' = curr.case
    /\ UNCHANGED << config, ncases, curr, counter_used_FC, obsTOT, obsUSED,
                    obs, chunks, footer, exc, obsRead, fcReads, tot0, used0,
                    earlier, resolverVars >>

\* any other post-processed base computation
ComputeOther ==
    /\ pc = "compute"
    /\ Len(computation_steps) >= 1
    /\ CurrentBase.isPostProcessed
    /\ ~ is_reference(config, CurrentBase)
    /\ LET computed_value == ComputerRun(CurrentBase, computation_steps)
           geopoints == nearest_gridpoint(computed_value, obs)
       IN /\ computations_cache' =
               (CurrentBase.shortname :> computed_value) @@ computations_cache
          /\ IF config.is_accumulated /\ ~ mask.bound
             THEN /\ Raise("NameError: mask")
                  /\ hist' = Append(hist,
                                    Event("run", CurrentBase.shortname, << >>))
                  /\ UNCHANGED << bi, steps, computation_steps, di,
                                  computations_result >>
             ELSE /\ hist' =
                       Append(hist, Event("run", CurrentBase.shortname, << >>))
                       \o (IF config.is_accumulated
                           THEN << Event("filter", CurrentBase.shortname,
                                         mask.v) >>
                           ELSE << >>)
                  /\ computations_result' =
                       Append(computations_result,
                              << CurrentBase.shortname,
                                 get_geopoints_values(
                                   MaskedOther(config, geopoints, mask)) >>)
                  /\ EnterBase(bi + 1)
                  /\ exc' = exc
    /\ UNCHANGED << config, ncases, curr, counter_used_FC, obsTOT, obsUSED,
                    obs, mask, ref_geopoints, ref_code, outcome, chunks, logs,
                    footer, obsRead, fcReads, tot0, used0,
                    earlier, refCase, resolverVars >>

CurrentDerived == derived_computations(config)[di]

\* after derived_computations[di]
NextDerived ==
    /\ di' = di + 1
    /\ pc' = IF di + 1 > Len(derived_computations(config))
             THEN "assemble" ELSE "derived"

\* computer.run raises in the derived loop
DerivedRaises ==
    /\ pc = "derived"
    /\ Raise("Computer.run")
    /\ UNCHANGED << config, ncases, curr, counter_used_FC, obsTOT, obsUSED,
                    obs, bi, steps, computation_steps, computations_cache,
                    computations_result, mask, ref_geopoints, ref_code, di,
                    outcome, chunks, logs, footer, obsRead, fcReads, tot0,
                    used0, earlier, refCase, hist,
                    resolverVars >>

\* the values a derived computation adds to computations_result
DerivedValues(computation, inputs) ==
    IF computation.field = "RATIO_FIELD"
    THEN IF config.is_accumulated
         THEN LET dividend == get_geopoints_values(GeopointsFilter(
                                nearest_gridpoint(inputs[1], obs), mask.v))
                  divisor == get_geopoints_values(GeopointsFilter(
                                nearest_gridpoint(inputs[2], obs), mask.v))
                  computed_value ==
                      ComputerRunRatio(computation, dividend, divisor)
              IN [ j \in DOMAIN computed_value |->
                     AroundQuotient(computed_value[j]) ]
         ELSE LET computed_value ==
                      ComputerRunRatio(computation, inputs[1], inputs[2])
                  values == get_geopoints_values(
                                nearest_gridpoint(computed_value, obs))
              IN [ j \in DOMAIN values |-> AroundQuotient(values[j]) ]
    ELSE LET computed_value == ComputerRun(computation, inputs)
             geopoints == nearest_gridpoint(computed_value, obs)
             values == get_geopoints_values(
                           IF config.is_accumulated
                           THEN GeopointsFilter(geopoints, mask.v)
                           ELSE geopoints)
         IN [ j \in DOMAIN values |-> AroundInt(values[j]) ]

\* computer = Computer(computation);
\* steps = [computations_cache[field_input["code"]] for ...]
CacheReads(computation) ==
    << Event("derive", computation.shortname, << >>) >>
    \o [ k \in 1 .. Len(computation.inputs) |->
           Event("read", computation.inputs[k], << >>) ]

\* the ratio is computed from filtered projections, any other kind is
\* computed first, then projected and filtered
DerivedEvents(computation) ==
    LET run == << Event("run", computation.shortname, << >>) >>
        filter == IF config.is_accumulated
                  THEN << Event("filter", computation.shortname, mask.v) >>
                  ELSE << >>
    IN IF computation.field = "RATIO_FIELD" THEN filter \o run
       ELSE run \o filter

\* one pass of the derived loop
ComputeDerived ==
    /\ pc = "derived"
    /\ IF InputCodes(CurrentDerived) \ DOMAIN computations_cache # { }
       THEN /\ Raise("KeyError")
            /\ hist' = Append(hist,
                              Event("derive", CurrentDerived.shortname, << >>))
            /\ UNCHANGED << di, computations_result >>
       ELSE IF /\ CurrentDerived.field = "RATIO_FIELD"
               /\ Len(CurrentDerived.inputs) # 2
       THEN /\ Raise("ValueError: unpack")
            /\ hist' = hist \o CacheReads(CurrentDerived)
            /\ UNCHANGED << di, computations_result >>
       ELSE IF config.is_accumulated /\ ~ mask.bound
       THEN /\ Raise("NameError: mask")
            /\ hist' = hist \o CacheReads(CurrentDerived)
            /\ UNCHANGED << di, computations_result >>
       ELSE /\ hist' = hist \o CacheReads(CurrentDerived)
                         \o DerivedEvents(CurrentDerived)
            /\ computations_result' =
                 Append(computations_result,
                        << CurrentDerived.shortname,
                           DerivedValues(CurrentDerived,
                               [ k \in 1 .. Len(CurrentDerived.inputs) |->
                                   computations_cache[CurrentDerived.inputs[k]] ]) >>)
            /\ NextDerived
            /\ exc' = exc
    /\ UNCHANGED << config, ncases, curr, counter_used_FC, obsTOT, obsUSED,
                    obs, bi, steps, computation_steps, computations_cache,
                    mask, ref_geopoints, ref_code, outcome, chunks, logs,
                    footer, obsRead, fcReads, tot0, used0,
                    earlier, refCase, resolverVars >>

\* [x] * n
Repeat(x, n) == [ j \in 1 .. n |-> x ]

\* the first computation of kind LOCAL_SOLAR_TIME, if it is post-processed
LSTColumns(cfg, lonObs, hour) ==
    LET lst == SelectInOrder(cfg.computations,
                   { c \in AllComputations(cfg) : c.field = "LOCAL_SOLAR_TIME" })
    IN IF lst # << >> /\ lst[1].isPostProcessed
       THEN << << "LST",
                  LET v == compute_local_solar_time(lonObs, hour)
                  IN [ j \in DOMAIN v |-> AroundQuotient(v[j]) ] >> >>
       ELSE << >>

ErrorColumns(cfg, o, ref) ==
    (IF cfg.error = "FER" THEN << << "FER", FERValues(o, ref) >> >> ELSE << >>)
    \o
    (IF cfg.error = "FE" THEN << << "FE", FEValues(o, ref) >> >> ELSE << >>)

\* the columns handed to serializer.add_columns_chunk
Columns(cfg, c, o, ref, results) ==
    LET n == Len(o)
        values == get_geopoints_values(ref)
    IN << << "BaseDate", Repeat(c.curr_date, n) >>,
          << "BaseTime", Repeat(c.curr_time, n) >>,
          << IF cfg.is_accumulated THEN "StepF" ELSE "Step",
             Repeat(c.step_s + cfg.accumulation, n) >>,
          << "DateOBS", Repeat(DateVF(cfg, c), n) >>,
          << "TimeOBS", Repeat(HourVF_num(cfg, c), n) >> >>
       \o
       << << "LatOBS", latitudes(o) >>,
          << "LonOBS", longitudes(o) >>,
          << "OBS", get_geopoints_values(o) >>,
          << "Predictand", [ j \in DOMAIN values |-> AroundInt(values[j]) ] >> >>
       \o ErrorColumns(cfg, o, ref)
       \o LSTColumns(cfg, longitudes(o), HourVF_num(cfg, c))
       \o results

\* obs = obs.filter(mask), for an accumulated predictand
ObsFiltered ==
    IF config.is_accumulated THEN << Event("filter", "obs", mask.v) >>
    ELSE << >>

\* n = nOBS, the count of line 218 taken before the observations are filtered
RowCountBeforeFilter(o, read) == Len(read)

\* n = len(obs), taken after obs = obs.filter(mask)
RowCount(o, read) == Len(o)

\* filter the observations, compute the errors, write the rows of the case
Assemble ==
    /\ pc = "assemble"
    /\ IF config.is_accumulated /\ ~ mask.bound
       THEN /\ Raise("NameError: mask")
            /\ UNCHANGED << obs, obsUSED, chunks, outcome, hist >>
       ELSE IF ~ ref_geopoints.bound
       THEN /\ Raise("NameError: ref_geopoints")
            /\ obs' = IF config.is_accumulated
                      THEN GeopointsFilter(obs, mask.v) ELSE obs
            /\ hist' = hist \o ObsFiltered
            /\ UNCHANGED << obsUSED, chunks, outcome >>
       ELSE LET o == IF config.is_accumulated
                     THEN GeopointsFilter(obs, mask.v) ELSE obs
            IN /\ obs' = o
               /\ hist' = hist \o ObsFiltered
                                \o << Event("errors", "", << >>) >>
               /\ obsUSED' = obsUSED + RowCount(o, obs)
               /\ chunks' = Append(chunks,
                              Columns(config, curr, o, ref_geopoints.v,
                                      computations_result))
               /\ outcome' = "EMITTED"
               /\ pc' = "loop"
               /\ exc' = exc
    /\ UNCHANGED << config, ncases, curr, counter_used_FC, obsTOT, bi, steps,
                    computation_steps, computations_cache, computations_result,
                    mask, ref_geopoints, ref_code, di, logs, footer, obsRead,
                    fcReads, tot0, used0, earlier, refCase, resolverVars >>

\* the text of the footer
Footer(cfg, tot, used, code) ==
    IF cfg.is_accumulated
    THEN [ considered |-> tot, retained |-> << code, used >> ]
    ELSE [ considered |-> tot, retained |-> << >> ]

\* iter_daterange is exhausted: the summary and serializer.add_footer
Summary ==
    /\ pc = "loop"
    /\ ncases >= 1
    /\ IF config.is_accumulated /\ ~ ref_code.bound
       THEN /\ Raise("NameError: ref_code")
            /\ UNCHANGED footer
       ELSE /\ footer' = Append(footer,
                                Footer(config, obsTOT, obsUSED, ref_code.v))
            /\ pc' = "done"
            /\ exc' = exc
    /\ UNCHANGED << config, ncases, curr, counter_used_FC, obsTOT, obsUSED,
                    obs, bi, steps, computation_steps, computations_cache,
                    computations_result, mask, ref_geopoints, ref_code, di,
                    outcome, chunks, logs, obsRead, fcReads, tot0, used0,
                    earlier, refCase, hist,
                    resolverVars >>

Next ==
    \/ SkipDuplicate
    \/ SkipOutOfPeriod
    \/ AcceptCase
    \/ ReadObsFails
    \/ ReadObsEmpty
    \/ ReadObsOk
    \/ ReadForecastFails
    \/ ReadForecastOk
    \/ ComputeRaises
    \/ ComputeHidden
    \/ ComputeReference
    \/ ComputeOther
    \/ DerivedRaises
    \/ ComputeDerived
    \/ Assemble
    \/ Summary

Spec == Init /\ [][Next]_vars

(* ------------------- the resolver on its own --------------------------- *)
ResolverFields ==
    { "24H_SOLAR_RADIATION", "WEIGHTED_AVERAGE_FIELD", "AVERAGE_FIELD",
      "MAXIMUM_FIELD", "MINIMUM_FIELD", "ACCUMULATED_FIELD",
      "INSTANTANEOUS_FIELD_001" }

\* accumulation lengths of the predictand, in hours
Accumulations == { 6, 12, 24 }

ResolverInit ==
    /\ config = CHOOSE c \in Configs : TRUE
    /\ pc = "resolver"
    /\ RunInit
    /\ rin \in [ field : ResolverFields, is_accumulated : BOOLEAN,
                 acc : Accumulations, step_s : 0 .. MaxStep,
                 sampling_interval : 1 .. MaxDelta ]
    /\ rout = [ done |-> FALSE, steps |-> << >> ]
    /\ oin = [ op |-> "", args |-> << >>, hour |-> 0 ]
    /\ oout = [ done |-> FALSE, value |-> << >> ]
    /\ ApiIdle

Resolve ==
    /\ pc = "resolver"
    /\ ~ rout.done
    /\ rout' = [ done |-> TRUE,
                 steps |-> Steps(rin.field, rin.is_accumulated, rin.acc,
                                 rin.step_s, rin.sampling_interval) ]
    /\ UNCHANGED << runVars, rin, oin, oout, apiVars >>

ResolverNext == Resolve

ResolverSpec == ResolverInit /\ [][ResolverNext]_vars

(* ------------------ the operator library on its own -------------------- *)
\* grid values of the fieldsets handed to an operator
Samples == { 0, 10, 20, 30 }

\* longitudes in whole degrees and hours of the day
Longitudes == -180 .. 180
Hours == 0 .. 23

LibraryInputs ==
    { [ op |-> "weighted_average_field", args |-> a, hour |-> 0 ] :
        a \in UNION { [ 1 .. n -> { [ p \in Stations |-> v ] : v \in Samples } ] :
                        n \in 2 .. MaxArgs } }
    \cup { [ op |-> "local_solar_time", args |-> << lon >>, hour |-> h ] :
             lon \in Longitudes, h \in Hours }

LibraryInit ==
    /\ config = CHOOSE c \in Configs : TRUE
    /\ pc = "library"
    /\ RunInit
    /\ rin = [ field |-> "", is_accumulated |-> FALSE, acc |-> 0, step_s |-> 0,
               sampling_interval |-> 1 ]
    /\ rout = [ done |-> FALSE, steps |-> << >> ]
    /\ oin \in LibraryInputs
    /\ oout = [ done |-> FALSE, value |-> << >> ]
    /\ ApiIdle

WeightedAverage ==
    /\ pc = "library"
    /\ ~ oout.done
    /\ oin.op = "weighted_average_field"
    /\ oout' = [ done |-> TRUE,
                 value |-> compute_weighted_average_field(oin.args) ]
    /\ UNCHANGED << runVars, rin, rout, oin, apiVars >>

LocalSolarTime ==
    /\ pc = "library"
    /\ ~ oout.done
    /\ oin.op = "local_solar_time"
    /\ oout' = [ done |-> TRUE,
                 value |-> compute_local_solar_time(oin.args, oin.hour) ]
    /\ UNCHANGED << runVars, rin, rout, oin, apiVars >>

LibraryNext ==
    \/ WeightedAverage
    \/ LocalSolarTime

LibrarySpec == LibraryInit /\ [][LibraryNext]_vars

(* -------------------- the partitioner on its own ----------------------- *)
\* short names by position, kinds, input codes (raw codes or a short name)
PartitionNames == << "A", "B", "C", "D" >>
PartitionFields == { "ACCUMULATED_FIELD", "RATIO_FIELD", "LOCAL_SOLAR_TIME" }
PartitionInputs == { << "tp" >>, << "cp" >>, << "cp", "A" >> }

PartitionInit ==
    /\ \E n \in 1 .. MaxComps :
         config \in { [ is_accumulated |-> TRUE, accumulation |-> 6,
                        code |-> "tp", min_value |-> 0, error |-> "FER",
                        codes |-> { "tp", "cp" }, sampling_interval |-> 6,
                        date_start |-> 1, date_end |-> 1,
                        computations |->
                            [ k \in 1 .. n |->
                                Computation(PartitionNames[k], fs[k], is[k],
                                            ps[k], 0, 1) ] ]
                      : fs \in [ 1 .. n -> PartitionFields ],
                        is \in [ 1 .. n -> PartitionInputs ],
                        ps \in [ 1 .. n -> BOOLEAN ] }
    /\ pc = "partition"
    /\ RunInit
    /\ rin = [ field |-> "", is_accumulated |-> FALSE, acc |-> 0, step_s |-> 0,
               sampling_interval |-> 1 ]
    /\ rout = [ done |-> FALSE, steps |-> << >> ]
    /\ oin = [ op |-> "", args |-> << >>, hour |-> 0 ]
    /\ oout = [ done |-> FALSE, value |-> << >> ]
    /\ ApiIdle

Partition ==
    /\ pc = "partition"
    /\ ~ oout.done
    /\ oout' = [ done |-> TRUE,
                 value |-> [ derived |-> derived_computations(config),
                             base |-> base_computations(config) ] ]
    /\ UNCHANGED << runVars, rin, rout, oin, apiVars >>

PartitionNext == Partition

PartitionSpec == PartitionInit /\ [][PartitionNext]_vars

(* ------------------- the handlers of the computation ------------------- *)
\* the server before its first request; run(config) is seen from outside: it
\* returns or an exception leaves it
ApiInit ==
    /\ config = CHOOSE c \in Configs : TRUE
    /\ pc = "api"
    /\ RunInit
    /\ rin = [ field |-> "", is_accumulated |-> FALSE, acc |-> 0, step_s |-> 0,
               sampling_interval |-> 1 ]
    /\ rout = [ done |-> FALSE, steps |-> << >> ]
    /\ oin = [ op |-> "", args |-> << >>, hour |-> 0 ]
    /\ oout = [ done |-> FALSE, value |-> << >> ]
    /\ ApiIdle

\* errorhandler(Exception): the traceback text with code 500; the flag is
\* not touched
handle_error(r) == handlers' = [ handlers EXCEPT ![r] = "failed" ]

\* payload = request.get_json(); config = Config.from_dict(payload)
ReceiveStart(r) ==
    /\ pc = "api"
    /\ handlers[r] = "idle"
    /\ \/ handlers' = [ handlers EXCEPT ![r] = "start" ]
       \/ handle_error(r)
    /\ UNCHANGED << runVars, rin, rout, oin, oout, is_computation_running,
                    status >>

\* is_computation_running = True, then run(config) is entered
SetRunning(r) ==
    /\ pc = "api"
    /\ handlers[r] = "start"
    /\ is_computation_running' = TRUE
    /\ handlers' = [ handlers EXCEPT ![r] = "run" ]
    /\ UNCHANGED << runVars, rin, rout, oin, oout, status >>

\* run(config) returns
RunReturns(r) ==
    /\ pc = "api"
    /\ handlers[r] = "run"
    /\ handlers' = [ handlers EXCEPT ![r] = "ran" ]
    /\ UNCHANGED << runVars, rin, rout, oin, oout, is_computation_running,
                    status >>

\* an exception leaves run(config) and start_computation
RunRaises(r) ==
    /\ pc = "api"
    /\ handlers[r] = "run"
    /\ handle_error(r)
    /\ UNCHANGED << runVars, rin, rout, oin, oout, is_computation_running,
                    status >>

\* is_computation_running = False; return Response()
ClearRunning(r) ==
    /\ pc = "api"
    /\ handlers[r] = "ran"
    /\ is_computation_running' = FALSE
    /\ handlers' = [ handlers EXCEPT ![r] = "done" ]
    /\ UNCHANGED << runVars, rin, rout, oin, oout, status >>

\* jsonify({"isRunning": is_computation_running}), with what the start
\* requests were doing when it was asked
get_computation_status ==
    /\ pc = "api"
    /\ status' = [ asked |-> TRUE,
                   isRunning |-> is_computation_running,
                   executing |-> \E r \in Requests : handlers[r] = "run",
                   finished |->
                       /\ \E r \in Requests : handlers[r] \in { "done", "failed" }
                       /\ \A r \in Requests :
                            handlers[r] \in { "idle", "done", "failed" } ]
    /\ UNCHANGED << runVars, rin, rout, oin, oout, is_computation_running,
                    handlers >>

ApiNext ==
    \/ \E r \in Requests : ReceiveStart(r)
    \/ \E r \in Requests : SetRunning(r)
    \/ \E r \in Requests : RunReturns(r)
    \/ \E r \in Requests : RunRaises(r)
    \/ \E r \in Requests : ClearRunning(r)
    \/ get_computation_status

ApiSpec == ApiInit /\ [][ApiNext]_vars

(* ------------------------------ properties ----------------------------- *)
CaseDrawn == curr.case >= 1

\* the observations the current case read from its file
ObsOfCase == ObsFile(obsTOT - tot0)

TrueCount(m) == Cardinality({ j \in 1 .. Len(m) : m[j] })

RowsUntouched ==
    /\ chunks = << >>
    /\ obsUSED = used0

\* C1: a case whose (issue date, issue hour, lead-time window) key was the key
\* of an earlier case of the run is SKIPPED before its observation file is
\* read: no read, no row chunk, obsTOT and obsUSED as they were
C1_DuplicateSkipped ==
    (CaseDrawn /\ ForecastKey(config, curr) \in earlier) =>
        /\ outcome = "SKIPPED"
        /\ ~ obsRead
        /\ fcReads = 0
        /\ RowsUntouched
        /\ obsTOT = tot0

\* a second case with the key of an accepted and emitted first case
C1_Witness ==
    /\ CaseDrawn
    /\ ForecastKey(config, curr) \in earlier
    /\ ForecastKey(config, curr) \in DOMAIN counter_used_FC
    /\ counter_used_FC[ForecastKey(config, curr)] < curr.case
    /\ obsUSED > 0
    /\ outcome = "SKIPPED"

ForecastFailureLogged ==
    \E e \in logs : e.reason \in { "forecast file not found",
                                   "reading forecast file failed" }

\* the mask of the current case is false everywhere
RetentionExhausted ==
    /\ config.is_accumulated
    /\ refCase = curr.case
    /\ mask.bound
    /\ TrueCount(mask.v) = 0

\* C2: a case whose forecast file is missing or unreadable, or whose mask
\* (accumulated predictand) removes every observation, contributes no rows:
\* add_columns_chunk is not called and obsUSED is unchanged
C2_NoRowsWithoutReference ==
    (CaseDrawn /\ (ForecastFailureLogged \/ RetentionExhausted)) =>
        /\ outcome = "SKIPPED"
        /\ RowsUntouched

\* the mask removed every one of the observations read
C2_Witness ==
    /\ RetentionExhausted
    /\ Len(mask.v) = MaxObs
    /\ obsTOT = tot0 + MaxObs
    /\ outcome = "SKIPPED"

\* the retained-observation count of the current case
RetainedCount ==
    IF config.is_accumulated THEN TrueCount(mask.v) ELSE Len(ObsOfCase)

ColumnNames(columns) == { columns[k][1] : k \in 1 .. Len(columns) }

\* C3: a case ends SKIPPED with no rows or EMITTED with exactly one
\* add_columns_chunk call whose columns (metadata, LatOBS, LonOBS, OBS,
\* Predictand, error, LST, computation results) all have length n, the
\* retained-observation count of the case; never a part of the rows
C3_AllRowsOrNone ==
    /\ Len(chunks) <= 1
    /\ (CaseDrawn /\ pc \in { "loop", "done" }) =>
           outcome \in { "SKIPPED", "EMITTED" }
    /\ outcome # "EMITTED" => chunks = << >>
    /\ outcome = "EMITTED" =>
         /\ Len(chunks) = 1
         /\ \A k \in 1 .. Len(chunks[1]) :
                Len(chunks[1][k][2]) = RetainedCount
         /\ { "LatOBS", "LonOBS", "OBS", "Predictand" }
                \subseteq ColumnNames(chunks[1])
         /\ \A k \in 1 .. Len(computations_result) :
                computations_result[k][1] \in ColumnNames(chunks[1])
         /\ obsUSED = used0 + RetainedCount

\* an emitted case whose mask kept some observations and dropped others
C3_Witness ==
    /\ outcome = "EMITTED"
    /\ config.is_accumulated
    /\ 0 < RetainedCount
    /\ RetainedCount < Len(ObsOfCase)
    /\ Len(computations_result) = 3
    /\ "LST" \in ColumnNames(chunks[1])

\* the reference computation's values at the observations of the current case
Projected ==
    nearest_gridpoint(computations_cache[ref_code.v], ObsOfCase)

ReferenceEvaluated ==
    /\ CaseDrawn
    /\ config.is_accumulated
    /\ refCase = curr.case

\* r holds the elements of full at the true positions of m, in their order
RetainedAt(r, full, m) ==
    /\ Len(r) = TrueCount(m)
    /\ \A k \in 1 .. Len(r) :
           /\ r[k].id \in 1 .. Len(m)
           /\ m[r[k].id]
           /\ r[k] = full[r[k].id]
           /\ k > 1 => r[k - 1].id < r[k].id

\* C4 as claimed: the mask is true at a position iff the reference's projected
\* value there is >= the configured predictand min_value
C4_MaskAgainstConfiguredMinimum ==
    ReferenceEvaluated =>
        \A j \in 1 .. Len(ObsOfCase) :
            mask.v[j] <=> (Projected[j].val >= config.min_value)

\* C4 as amended: the mask is true at a position iff the reference's projected
\* value there is >= (min_value + addScale) * mulScale of the first
\* computation; the retained set is the observations at the true positions in
\* their order and obsUSED grows by the number of true positions
C4_MaskAgainstScaledMinimum ==
    ReferenceEvaluated =>
        /\ Len(mask.v) = Len(ObsOfCase)
        /\ \A j \in 1 .. Len(ObsOfCase) :
               mask.v[j] <=>
                   (Projected[j].val >=
                        (config.min_value + config.computations[1].addScale)
                            * config.computations[1].mulScale)
        /\ RetainedAt(ref_geopoints.v, Projected, mask.v)
        /\ outcome = "EMITTED" =>
               /\ RetainedAt(obs, ObsOfCase, mask.v)
               /\ obsUSED = used0 + TrueCount(mask.v)

\* an emitted case with a scaled minimum: the second of two observations is
\* kept at a projected value equal to the threshold, the first is dropped
C4_Witness ==
    /\ ReferenceEvaluated
    /\ outcome = "EMITTED"
    /\ config.computations[1].mulScale = 2
    /\ mask.v = << FALSE, TRUE >>
    /\ Projected[2].val = predictand_min_value(config)
    /\ obsUSED = used0 + 1

RunOver == pc \in { "done", "raised" }

\* C5: a run that iterated over cases has emitted the summary through
\* serializer.add_footer when it is over, however many cases were skipped
C5_SummaryEmitted == RunOver => Len(footer) = 1

\* C6: a failure raised by Computer.run is fatal to the case only: the case is
\* SKIPPED without rows, an error is logged and the run goes on
C6_ComputerFailureSkipsCase ==
    exc = "Computer.run" =>
        /\ outcome = "SKIPPED"
        /\ RowsUntouched
        /\ \E e \in logs : e.level = "error"
        /\ pc # "raised"

FileFailureLogged ==
    \E e \in logs : e.reason \in { "observation file not found",
                                   "error reading observation file",
                                   "forecast file not found",
                                   "reading forecast file failed" }

\* C7: a missing or undecodable observation or forecast file skips the
\* current case only: the failing read leaves the case SKIPPED without rows
\* and obsUSED unchanged at the head of the loop, and no later step of that
\* case reads a forecast file, writes rows or changes the accumulators
C7_FileFailureSkipsCase ==
    [][ /\ (FileFailureLogged' /\ ~ FileFailureLogged) =>
              /\ outcome' = "SKIPPED"
              /\ pc' = "loop"
              /\ chunks' = << >>
              /\ obsUSED' = used0
              /\ exc' = ""
        /\ (FileFailureLogged /\ curr' = curr) =>
              /\ fcReads' = fcReads
              /\ obsRead' = obsRead
              /\ chunks' = chunks
              /\ obsUSED' = obsUSED
              /\ obsTOT' = obsTOT ]_vars

\* the second forecast file of the second base computation failed, in the
\* first of the cases
C7_Witness ==
    /\ \E e \in logs : e.reason = "reading forecast file failed"
    /\ fcReads = 4
    /\ outcome = "SKIPPED"
    /\ ncases < MaxCases

Resolved(fields) ==
    /\ rout.done
    /\ rin.is_accumulated
    /\ rin.field \in fields

\* C9: for an accumulated predictand the lead times of 24H_SOLAR_RADIATION are
\* [s, s+acc] if acc = 24, else [0, 24] if s+acc <= 24, else
\* [s+acc-24, s+acc]; acc=24, s=6 gives [6, 30], acc=6, s=20 gives [2, 26],
\* acc=6, s=10 gives [0, 24]
C9_SolarRadiationSteps ==
    Resolved({ "24H_SOLAR_RADIATION" }) =>
        /\ rin.acc = 24 => rout.steps = << rin.step_s, rin.step_s + 24 >>
        /\ (rin.acc # 24 /\ rin.step_s + rin.acc <= 24) =>
               rout.steps = << 0, 24 >>
        /\ (rin.acc # 24 /\ rin.step_s + rin.acc > 24) =>
               rout.steps = << rin.step_s + rin.acc - 24, rin.step_s + rin.acc >>
        /\ (rin.acc = 24 /\ rin.step_s = 6) => rout.steps = << 6, 30 >>
        /\ (rin.acc = 6 /\ rin.step_s = 20) => rout.steps = << 2, 26 >>
        /\ (rin.acc = 6 /\ rin.step_s = 10) => rout.steps = << 0, 24 >>

\* acc = 6, s = 20: the window is moved back to the 24 hours before its end
C9_Witness ==
    /\ Resolved({ "24H_SOLAR_RADIATION" })
    /\ rin.acc = 6
    /\ rin.step_s = 20
    /\ rout.steps = << 2, 26 >>

Averages == { "WEIGHTED_AVERAGE_FIELD", "AVERAGE_FIELD" }

\* the list starts at s and advances in steps of D
FromStartByInterval(st, s, D) ==
    /\ Len(st) >= 1
    /\ st[1] = s
    /\ \A k \in 2 .. Len(st) : st[k] = st[k - 1] + D

\* C10 as claimed: for the averages the list starts at s, advances in steps
\* of D and has the window end s+acc as its last element, for every s, acc, D
C10_AverageStepsReachWindowEnd ==
    Resolved(Averages) =>
        /\ FromStartByInterval(rout.steps, rin.step_s, rin.sampling_interval)
        /\ rout.steps[Len(rout.steps)] = rin.step_s + rin.acc

\* C10 as amended: the list starts at s, advances in steps of D and holds
\* every s+k*D up to s+acc; its last element is the window end s+acc when D
\* divides acc and lies less than D before it otherwise
C10_AverageStepsWithinWindow ==
    Resolved(Averages) =>
        LET last == rout.steps[Len(rout.steps)]
        IN /\ FromStartByInterval(rout.steps, rin.step_s,
                                  rin.sampling_interval)
           /\ last <= rin.step_s + rin.acc
           /\ rin.step_s + rin.acc < last + rin.sampling_interval
           /\ (rin.acc % rin.sampling_interval = 0) <=>
                  (last = rin.step_s + rin.acc)

\* acc = 6, D = 4, s = 20: the files of t+20 and t+24 are read, t+26 is not
C10_Witness ==
    /\ Resolved({ "WEIGHTED_AVERAGE_FIELD" })
    /\ rin.acc = 6
    /\ rin.sampling_interval = 4
    /\ rin.step_s = 20
    /\ rout.steps = << 20, 24 >>

Extremes == { "MAXIMUM_FIELD", "MINIMUM_FIELD" }

\* the list advances in steps of D from its first element
AdvancesBy(st, D) ==
    \A k \in 2 .. Len(st) : st[k] = st[k - 1] + D

\* C11 as claimed: for MAXIMUM_FIELD and MINIMUM_FIELD under an accumulated
\* predictand the list of lead times is non-empty, leaves out the window
\* start s, begins at s+D, advances in steps of D and ends at the window end
\* s+acc, for every s, acc, D
C11_ExtremeStepsReachWindowEnd ==
    Resolved(Extremes) =>
        /\ Len(rout.steps) >= 1
        /\ \A k \in 1 .. Len(rout.steps) : rout.steps[k] # rin.step_s
        /\ rout.steps[1] = rin.step_s + rin.sampling_interval
        /\ AdvancesBy(rout.steps, rin.sampling_interval)
        /\ rout.steps[Len(rout.steps)] = rin.step_s + rin.acc

\* C11 as amended: the list leaves out the window start s and holds, in
\* steps of D, every s+k*D with k >= 1 up to s+acc; it is empty when D is
\* greater than acc, otherwise it begins at s+D, and its last element is the
\* window end s+acc exactly when D divides acc
C11_ExtremeStepsWithinWindow ==
    Resolved(Extremes) =>
        LET st == rout.steps
            s == rin.step_s
            D == rin.sampling_interval
        IN /\ \A k \in 1 .. Len(st) : st[k] # s
           /\ AdvancesBy(st, D)
           /\ (Len(st) = 0) <=> (D > rin.acc)
           /\ Len(st) >= 1 =>
                  /\ st[1] = s + D
                  /\ st[Len(st)] <= s + rin.acc
                  /\ s + rin.acc < st[Len(st)] + D
                  /\ (rin.acc % D = 0) <=> (st[Len(st)] = s + rin.acc)

\* acc = 6, D = 4, s = 20: only the file of t+24 is read, neither the window
\* start t+20 nor the window end t+26
C11_Witness ==
    /\ Resolved({ "MAXIMUM_FIELD" })
    /\ rin.acc = 6
    /\ rin.sampling_interval = 4
    /\ rin.step_s = 20
    /\ rout.steps = << 24 >>

\* C12: for a non-accumulated predictand the lead times of every base kind
\* are exactly [s]; for an accumulated predictand every kind other than
\* 24H_SOLAR_RADIATION, the averages and the extremes has exactly [s, s+acc]
C12_InstantAndOtherSteps ==
    rout.done =>
        /\ ~ rin.is_accumulated => rout.steps = << rin.step_s >>
        /\ ( /\ rin.is_accumulated
             /\ rin.field \notin
                    { "24H_SOLAR_RADIATION" } \cup Averages \cup Extremes )
               => rout.steps = << rin.step_s, rin.step_s + rin.acc >>

\* a maximum over an instantaneous predictand reads the one file of t+20,
\* whatever the sampling interval
C12_Witness ==
    /\ rout.done
    /\ ~ rin.is_accumulated
    /\ rin.field = "MAXIMUM_FIELD"
    /\ rin.sampling_interval = 4
    /\ rin.step_s = 20
    /\ rout.steps = << 20 >>

Averaged ==
    /\ oout.done
    /\ oin.op = "weighted_average_field"

RECURSIVE InteriorSum(_, _, _)
InteriorSum(args, k, p) ==
    IF k >= Len(args) THEN 0
    ELSE args[k][p] + InteriorSum(args, k + 1, p)

\* the fieldsets holding the values vs everywhere
Uniform(vs) == [ k \in 1 .. Len(vs) |-> [ p \in Stations |-> vs[k] ] ]

\* C13: compute_weighted_average_field on N >= 2 fieldsets returns
\* (0.5*first + 0.5*last + sum of the interior) / (N - 1); [10, 20, 30] and
\* [10, 30] both give 20
C13_WeightedAverage ==
    Averaged =>
        LET args == oin.args
            N == Len(args)
        IN \A p \in Stations :
             /\ oout.value[p][2] > 0
             /\ 2 * (N - 1) * oout.value[p][1] =
                    oout.value[p][2]
                      * (args[1][p] + args[N][p] + 2 * InteriorSum(args, 2, p))
             /\ args \in { Uniform(<< 10, 20, 30 >>), Uniform(<< 10, 30 >>) }
                    => oout.value[p][1] = 20 * oout.value[p][2]

\* 10, 20, 30: the interior 20 counts once, the ends a half each, over 2
C13_Witness ==
    /\ Averaged
    /\ oin.args = Uniform(<< 10, 20, 30 >>)
    /\ \A p \in Stations : oout.value[p] = << 80, 4 >>

\* C14: compute_local_solar_time gives, for every hour 0..23 and longitude in
\* [-180, 180], hour + lon/15 less 24 if that is 24 or more when lon >= 0,
\* and hour - |lon|/15 plus 24 if that is negative when lon < 0; lon 30 at
\* hour 20 gives 22, lon -60 at hour 2 gives 22
C14_LocalSolarTime ==
    (oout.done /\ oin.op = "local_solar_time") =>
        LET lon == oin.args[1]
            lst == oout.value[1]
            east == 15 * oin.hour + lon
            west == 15 * oin.hour - Abs(lon)
        IN /\ lst[2] > 0
           /\ lon >= 0 =>
                  15 * lst[1] = lst[2] * (IF east >= 360 THEN east - 360
                                          ELSE east)
           /\ lon < 0 =>
                  15 * lst[1] = lst[2] * (IF west < 0 THEN west + 360
                                          ELSE west)
           /\ (lon = 30 /\ oin.hour = 20) => lst[1] = 22 * lst[2]
           /\ (lon = -60 /\ oin.hour = 2) => lst[1] = 22 * lst[2]

Emitted ==
    /\ outcome = "EMITTED"
    /\ Len(chunks) = 1

ColumnOf(columns, name) ==
    columns[CHOOSE k \in 1 .. Len(columns) : columns[k][1] = name][2]

\* the LST column that the hour and the longitudes of the retained
\* observations give
LSTOf(o, hour) ==
    LET v == compute_local_solar_time(
                 [ j \in 1 .. Len(o) |-> LonOf(o[j].id) ], hour)
    IN [ j \in DOMAIN v |-> AroundQuotient(v[j]) ]

\* forecast files that the base computations of the case ask for
RECURSIVE FilesOf(_, _, _)
FilesOf(cfg, c, comps) ==
    IF comps = << >> THEN 0
    ELSE Len(Steps(Head(comps).field, cfg.is_accumulated, cfg.accumulation,
                   c.step_s, cfg.sampling_interval))
         + FilesOf(cfg, c, Tail(comps))

\* no forecast file is read for LOCAL_SOLAR_TIME and Computer.run is not
\* called for it in the loops of the base and the derived computations
NoForecastForLST ==
    /\ fcReads = FilesOf(config, curr, base_computations(config))
    /\ \A k \in 1 .. Len(hist) :
         \A c \in AllComputations(config) :
           (hist[k].ev = "run" /\ hist[k].name = c.shortname)
               => c.field # "LOCAL_SOLAR_TIME"

HasLST == Emitted /\ "LST" \in ColumnNames(chunks[1])

\* C15 as claimed: the LST column of an emitted case is computed from the
\* issue hour of the case and the longitudes of its retained observations,
\* and no forecast file is read for it
C15_LSTFromIssueHour ==
    HasLST =>
        /\ ColumnOf(chunks[1], "LST") = LSTOf(obs, curr.curr_time)
        /\ NoForecastForLST

\* C15 as amended: the LST column of an emitted case is computed from the
\* hour of the validity time of the case, (issue hour + lead time +
\* accumulation) mod 24, and the longitudes of its retained observations, and
\* no forecast file is read for it
C15_LSTFromValidityHour ==
    HasLST =>
        /\ ColumnOf(chunks[1], "LST") =
               LSTOf(obs, (curr.curr_time + curr.step_s + config.accumulation)
                            % 24)
        /\ NoForecastForLST

\* issue hour 0, lead time 6, window of 6 hours: at longitude -30 the column
\* holds 12 - 2 = 10, where the issue hour would give 22
C15_Witness ==
    /\ HasLST
    /\ curr.curr_time = 0
    /\ curr.step_s = 6
    /\ config.accumulation = 6
    /\ Len(obs) >= 1
    /\ LonOf(obs[1].id) = -30
    /\ ColumnOf(chunks[1], "LST")[1] = << 10000, 1000 >>

\* positions of hist holding an entry of the kind ev
EventsOf(ev) == { k \in 1 .. Len(hist) : hist[k].ev = ev }

NamesOf(comps) == { comps[k].shortname : k \in 1 .. Len(comps) }

\* the case has gone through both loops with an accumulated predictand
AtRowAssembly ==
    /\ config.is_accumulated
    /\ CaseDrawn
    /\ pc = "assemble" \/ outcome = "EMITTED"

\* what the case has to filter: the exposed base computations other than the
\* reference, the derived computations and, once the rows are written, obs
ToBeFiltered ==
    { c.shortname : c \in { b \in AllComputations(config) :
          /\ b.field # "LOCAL_SOLAR_TIME"
          /\ b.isPostProcessed
          /\ ~ is_reference(config, b) } }
    \cup (IF outcome = "EMITTED" THEN { "obs" } ELSE { })

\* C16: in a case with an accumulated predictand that reaches row assembly
\* the mask is assigned exactly once, true where the value of the reference
\* computation at the grid point nearest to the observation is at least the
\* minimum, before any filter; every other exposed base computation, every
\* derived computation and obs are filtered with that mask, unmodified
C16_OneMaskPerCase ==
    AtRowAssembly =>
        /\ Cardinality(EventsOf("mask")) = 1
        /\ LET km == CHOOSE k \in EventsOf("mask") : TRUE
               m == hist[km].m
               reference == computations_cache[hist[km].name]
           IN /\ \E c \in AllComputations(config) :
                    c.shortname = hist[km].name /\ is_reference(config, c)
              /\ Len(m) = Len(ObsOfCase)
              /\ \A j \in 1 .. Len(m) :
                    m[j] <=> (reference[ObsOfCase[j].id]
                                >= predictand_min_value(config))
              /\ mask = Bound(m)
              /\ \A k \in EventsOf("filter") : k > km /\ hist[k].m = m
              /\ { hist[k].name : k \in EventsOf("filter") } = ToBeFiltered

\* two observations, the first below the minimum: TP, CP, CPR and obs were
\* all filtered with the one mask << FALSE, TRUE >>
C16_Witness ==
    /\ AtRowAssembly
    /\ outcome = "EMITTED"
    /\ mask = Bound(<< FALSE, TRUE >>)
    /\ { hist[k].name : k \in EventsOf("filter") } = { "CP", "CPR", "obs" }
    /\ Len(obs) = 1

\* the computations evaluated or begun so far in the case, in order
Evaluations ==
    LET ks == EventsOf("run") \cup EventsOf("derive")
        nth(i) == CHOOSE k \in ks : Cardinality({ l \in ks : l < k }) = i - 1
    IN [ i \in 1 .. Cardinality(ks) |-> hist[nth(i)].name ]

IsPrefix(xs, ys) ==
    /\ Len(xs) <= Len(ys)
    /\ \A k \in 1 .. Len(xs) : xs[k] = ys[k]

\* every derived computation once at the head of its pass, once evaluated
RECURSIVE Twice(_)
Twice(xs) ==
    IF xs = << >> THEN << >>
    ELSE << Head(xs), Head(xs) >> \o Twice(Tail(xs))

OrderOfNames(comps) == [ k \in 1 .. Len(comps) |-> comps[k].shortname ]

\* C17: in every case the base computations are evaluated in the order of
\* the partitioner and a derived computation is begun only when every base
\* computation has been evaluated and has its value in the cache under its
\* short name; in a case that a base computation has made skip, no derived
\* computation is begun
C17_BaseBeforeDerived ==
    CaseDrawn =>
        /\ \E done \in 0 .. Len(Evaluations) :
             /\ IsPrefix(SubSeq(Evaluations, 1, done),
                         OrderOfNames(base_computations(config)))
             /\ done < Len(Evaluations) =>
                    /\ done = Len(base_computations(config))
                    /\ NamesOf(base_computations(config))
                          \subseteq DOMAIN computations_cache
                    /\ IsPrefix(SubSeq(Evaluations, done + 1,
                                       Len(Evaluations)),
                                Twice(OrderOfNames(
                                          derived_computations(config))))
        /\ (outcome = "SKIPPED" \/ ForecastFailureLogged
                \/ RetentionExhausted) => EventsOf("derive") = { }

\* TP and CP were evaluated and cached, then the ratio CPR
C17_Witness ==
    /\ CaseDrawn
    /\ Evaluations = << "TP", "CP", "CPR", "CPR" >>
    /\ { "TP", "CP" } \subseteq DOMAIN computations_cache
    /\ pc = "assemble"

\* an entry of the kind ev, of the given name if one is given, before k
Before(k, ev, name) ==
    \E l \in 1 .. k - 1 :
        /\ hist[l].ev = ev
        /\ name # "" => hist[l].name = name

\* C18: whatever a case reads of the cache, of mask and of ref_geopoints was
\* written in the same case: a cache entry is read after computer.run of
\* that name, mask is used after its assignment, ref_geopoints after its
\* assignment, itself made with the mask of the case
C18_NothingFromEarlierCase ==
    CaseDrawn =>
        /\ \A k \in EventsOf("read") : Before(k, "run", hist[k].name)
        /\ \A k \in EventsOf("filter") : Before(k, "mask", "")
        /\ \A k \in EventsOf("errors") : Before(k, "ref", "")
        /\ config.is_accumulated =>
               \A k \in EventsOf("ref") : Before(k, "mask", "")
        /\ pc = "derived" =>
               \A c \in DOMAIN computations_cache : Before(Len(hist) + 1, "run", c)

\* a second case writes its rows after a first case has left its own cache,
\* mask and ref_geopoints behind
C18_Witness ==
    /\ curr.case = 2
    /\ outcome = "EMITTED"
    /\ config.is_accumulated
    /\ obsUSED > used0
    /\ used0 > 0
    /\ EventsOf("read") # { }
    /\ EventsOf("errors") # { }

Partitioned == pc = "partition" /\ oout.done

Elements(xs) == { xs[k] : k \in 1 .. Len(xs) }

\* position of a computation in config.computations
PositionOf(c) == CHOOSE k \in 1 .. Len(config.computations) :
                     config.computations[k] = c

\* C19: a computation is derived iff one of its input codes is not a raw
\* predictor code, it is post-processed and it is not LOCAL_SOLAR_TIME; every
\* other computation that is not LOCAL_SOLAR_TIME is base; the two lists are
\* disjoint and cover the computations that are not LOCAL_SOLAR_TIME; the
\* base list has the reference first, the others in configured order
C19_Partition ==
    Partitioned =>
        LET base == oout.value.base
            derived == oout.value.derived
            notLST == { c \in AllComputations(config) :
                          c.field # "LOCAL_SOLAR_TIME" }
        IN /\ \A c \in AllComputations(config) :
                c \in Elements(derived) <=>
                    /\ \E k \in 1 .. Len(c.inputs) :
                           c.inputs[k] \notin config.codes
                    /\ c.isPostProcessed
                    /\ c.field # "LOCAL_SOLAR_TIME"
           /\ Elements(base) = notLST \ Elements(derived)
           /\ Elements(base) \cap Elements(derived) = { }
           /\ Elements(base) \cup Elements(derived) = notLST
           /\ Len(base) + Len(derived) = Cardinality(notLST)
           /\ \A i, j \in 1 .. Len(base) :
                i < j =>
                    /\ is_reference(config, base[j])
                           => is_reference(config, base[i])
                    /\ (is_reference(config, base[i])
                            <=> is_reference(config, base[j]))
                           => PositionOf(base[i]) < PositionOf(base[j])

\* A on cp, B the reference on tp, C the ratio of cp and A: B is moved before
\* A, C is derived
C19_Witness ==
    /\ Partitioned
    /\ Len(config.computations) = 3
    /\ OrderOfNames(oout.value.base) = << "B", "A" >>
    /\ OrderOfNames(oout.value.derived) = << "C" >>
    /\ is_reference(config, oout.value.base[1])

\* rows of the chunk the current case has written
RowsEmitted == Len(ColumnOf(chunks[1], "OBS"))

\* the counters at any moment of a run
CountersInOrder ==
    /\ obsUSED <= obsTOT
    /\ tot0 <= obsTOT
    /\ outcome = "EMITTED" => obsUSED = used0 + RowsEmitted
    /\ outcome # "EMITTED" => obsUSED = used0

\* the counters across one step of a run
CountersStep ==
    /\ (pc = "read_obs" /\ pc' # "loop") =>
           /\ Len(obs') >= 1
           /\ obsTOT' = obsTOT + Len(obs')
    /\ obsTOT' # obsTOT => (pc = "read_obs" /\ pc' # "loop")
    /\ obsUSED' # obsUSED =>
           /\ outcome' = "EMITTED"
           /\ chunks = << >>
           /\ Len(chunks') = 1
           /\ obsUSED' = obsUSED + Len(ColumnOf(chunks'[1], "OBS"))

\* C20: obsUSED <= obsTOT always; obsTOT grows by the number of observations
\* of every case whose observation file was read and was not empty, skipped
\* later or not; obsUSED grows only when a case is emitted, by the number of
\* rows emitted
C20_Counters == []CountersInOrder /\ [][CountersStep]_vars

\* after an emitted case, a second case has read two observations and was
\* skipped: obsTOT has grown by 2, obsUSED has not
C20_Witness ==
    /\ curr.case = 2
    /\ outcome = "SKIPPED"
    /\ used0 > 0
    /\ obsUSED = used0
    /\ obsTOT = tot0 + 2

\* the computation of a short name
ComputationNamed(name) ==
    CHOOSE c \in AllComputations(config) : c.shortname = name

\* C21: when a pass of the derived loop begins, every input code of its
\* computation is a key of computations_cache, so that the lookup of line 388
\* does not fail, whatever the configuration: also when an input names a raw
\* predictor code or the short name of another derived computation
C21_DerivedInputsCached ==
    /\ exc # "KeyError"
    /\ \A k \in EventsOf("derive") :
         InputCodes(ComputationNamed(hist[k].name))
             \subseteq DOMAIN computations_cache

\* C22: /computations/status reports isRunning true while run(config)
\* executes, and false once a start request has finished and none is under
\* way, whether run returned or raised
C22_StatusFollowsRun ==
    status.asked =>
        /\ status.executing => status.isRunning
        /\ status.finished => ~ status.isRunning

====
